---- MODULE Spec2Model ----
(***************************************************************************)
(* The UK housing routing graph (graphs/uk_housing_agent/graph.py) behind  *)
(* the OpenAI-compatible adapter (agent_server/api/openai_compat.py).      *)
(*                                                                         *)
(* Text values (Python str) are sequences of one-character strings, so     *)
(* that strip(), lower() and len() are computed character by character.    *)
(* Python None is the value None below, distinct from every text.          *)
(***************************************************************************)
EXTENDS Integers, Sequences, FiniteSets, TLC

\* ---------------------------------------------------------------- bounds
\* Request slots of the server: the requests served at the same time.
MaxInFlight == 2
\* Requests received in one behaviour, one after the other.
MaxReq == 2
\* Requests received in one behaviour of concurrent requests.
MaxConcReq == 3
\* Longest classifier reply enumerated character by character.
MaxReplyLen == 3
\* Longest request message list enumerated role by role.
MaxMsgs == 2

\* ------------------------------------------------------------------ text
None == <<"None">>

Whitespace == {" ", "\n", "\t"}

UpperCase == <<"A","B","C","D","E","F","G","H","I","J","K","L","M",
               "N","O","P","Q","R","S","T","U","V","W","X","Y","Z">>
LowerCase == <<"a","b","c","d","e","f","g","h","i","j","k","l","m",
               "n","o","p","q","r","s","t","u","v","w","x","y","z">>

RECURSIVE lstrip(_)
lstrip(s) ==
    IF s # <<>> /\ Head(s) \in Whitespace THEN lstrip(Tail(s)) ELSE s

RECURSIVE rstrip(_)
rstrip(s) ==
    IF s # <<>> /\ s[Len(s)] \in Whitespace
    THEN rstrip(SubSeq(s, 1, Len(s) - 1))
    ELSE s

\* str.strip(): leading and trailing whitespace removed.
strip(s) == rstrip(lstrip(s))

lower_char(c) ==
    IF \E i \in DOMAIN UpperCase : UpperCase[i] = c
    THEN LowerCase[CHOOSE i \in DOMAIN UpperCase : UpperCase[i] = c]
    ELSE c

\* str.lower(): every upper-case letter replaced by its lower-case letter.
lower(s) == [i \in 1..Len(s) |-> lower_char(s[i])]

\* Concatenation of a sequence of texts (the content of a chunked reply).
RECURSIVE Concat(_)
Concat(chunks) ==
    IF chunks = <<>> THEN <<>> ELSE Head(chunks) \o Concat(Tail(chunks))

\* Python truthiness of an optional text: None and "" are falsy.
Truthy(x) == x # None /\ x # <<>>

heating == <<"h","e","a","t","i","n","g">>
damp    == <<"d","a","m","p">>
repairs == <<"r","e","p","a","i","r","s">>
general == <<"g","e","n","e","r","a","l">>

\* ----------------------------------------------------- graph: classifier
valid_types == {heating, damp, repairs, general}

\* Variant: the reply is lower-cased but not trimmed.
ParseIntentLowerOnly(content) ==
    LET detected == lower(content)
    IN  IF detected \in valid_types THEN detected ELSE general

\* Variant: the normalised reply is written without the fallback.
ParseIntentNoFallback(content) == lower(strip(content))

\* The issue_type detect_intent writes for a classifier reply content.
ParseIntent(content) ==
    LET detected == lower(strip(content))
    IN  IF detected \in valid_types THEN detected ELSE general

\* ------------------------------------------------------- graph: dispatch
\* Variant: repairs_agent is not a node of the graph.
AgentNodesThree == {"heating_agent", "damp_agent", "general_agent"}

\* The specialist nodes added to builder.
AgentNodes == {"heating_agent", "damp_agent", "repairs_agent", "general_agent"}

\* Variant: the routing table is ignored.
route_to_agent_default_only(state) == "general_agent"

\* state is the run's state dict: issue_type may be missing, None or any
\* text; state.get("issue_type", "general"), then routing.get(.., default).
route_to_agent(state) ==
    LET issue_type == IF "issue_type" \in DOMAIN state
                      THEN state.issue_type ELSE general
    IN  CASE issue_type = heating -> "heating_agent"
          [] issue_type = damp    -> "damp_agent"
          [] issue_type = repairs -> "repairs_agent"
          [] issue_type = general -> "general_agent"
          [] OTHER                -> "general_agent"

\* Variant: heating_agent leads back to the classifier.
edges_cycle ==
    { <<"__start__", "detect_intent">>,
      <<"heating_agent", "detect_intent">>,
      <<"damp_agent", "__end__">>,
      <<"repairs_agent", "__end__">>,
      <<"general_agent", "__end__">> }

\* The unconditional edges of builder: __start__ to the classifier and every
\* specialist to END.
edges ==
    { <<"__start__", "detect_intent">>,
      <<"heating_agent", "__end__">>,
      <<"damp_agent", "__end__">>,
      <<"repairs_agent", "__end__">>,
      <<"general_agent", "__end__">> }

\* The node that runs after node n with the run's state st.
next_node(n, state) ==
    IF n = "detect_intent"
    THEN route_to_agent(state)
    ELSE CHOOSE m \in AgentNodes \cup {"detect_intent", "__end__"} :
            <<n, m>> \in edges

\* ------------------------------------------------- adapter: conversion
\* Variant: a message of an unknown role is kept as a human message.
RECURSIVE convert_keep_all(_)
convert_keep_all(messages) ==
    IF messages = <<>> THEN <<>>
    ELSE LET msg == Head(messages)
             rest == convert_keep_all(Tail(messages))
         IN  CASE msg.role = "system" ->
                    <<[type |-> "system", content |-> msg.content]>> \o rest
               [] msg.role = "assistant" ->
                    <<[type |-> "ai", content |-> msg.content]>> \o rest
               [] OTHER ->
                    <<[type |-> "human", content |-> msg.content]>> \o rest

\* ChatMessage role -> internal message class, for the three known roles;
\* a message of any other role is skipped.
RECURSIVE _convert_messages_to_langgraph_format(_)
_convert_messages_to_langgraph_format(messages) ==
    IF messages = <<>> THEN <<>>
    ELSE LET msg == Head(messages)
             rest == _convert_messages_to_langgraph_format(Tail(messages))
         IN  CASE msg.role = "system" ->
                    <<[type |-> "system", content |-> msg.content]>> \o rest
               [] msg.role = "user" ->
                    <<[type |-> "human", content |-> msg.content]>> \o rest
               [] msg.role = "assistant" ->
                    <<[type |-> "ai", content |-> msg.content]>> \o rest
               [] OTHER -> rest

\* The OpenAI role an internal message type stands for.
RoleOf(type) ==
    CASE type = "system" -> "system"
      [] type = "human"  -> "user"
      [] type = "ai"     -> "assistant"


\* -------------------------------------------------------- graph: state
\* Variant: the update replaces the history.
add_messages_replace(left, right) == right

\* The reducer of MessagesState.messages: messages that carry no id of an
\* existing message are appended, in order, to the history.
add_messages(left, right) == left \o right

\* A State with no persisted values: no messages, issue_type and
\* current_agent at their default None.
EmptyState == [messages |-> <<>>, issue_type |-> None, current_agent |-> None]

\* The state after a node's update: a field the update holds is written,
\* messages through its reducer, and every other field keeps its value.
apply_update(state, update) ==
    [messages |-> IF "messages" \in DOMAIN update
                  THEN add_messages(state.messages, update.messages)
                  ELSE state.messages,
     issue_type |-> IF "issue_type" \in DOMAIN update
                    THEN update.issue_type ELSE state.issue_type,
     current_agent |-> IF "current_agent" \in DOMAIN update
                       THEN update.current_agent ELSE state.current_agent]

\* Variant: repairs_agent has the persona of general_agent.
PersonaShared(node) ==
    CASE node = "detect_intent" -> "Classify the user message into EXACTLY ONE category"
      [] node = "heating_agent" -> "You are a heating system expert"
      [] node = "damp_agent"    -> "You are a damp and moisture specialist"
      [] node = "repairs_agent" -> "You are a general housing advisor"
      [] node = "general_agent" -> "You are a general housing advisor"

\* The persona (system prompt) of each node's model call.
Persona(node) ==
    CASE node = "detect_intent" -> "Classify the user message into EXACTLY ONE category"
      [] node = "heating_agent" -> "You are a heating system expert"
      [] node = "damp_agent"    -> "You are a damp and moisture specialist"
      [] node = "repairs_agent" -> "You are a repairs and maintenance expert"
      [] node = "general_agent" -> "You are a general housing advisor"

\* Variant: a thread that has an issue_type keeps it.
detect_intent_update_sticky(state, reply) ==
    [issue_type |-> IF state.issue_type # None THEN state.issue_type
                    ELSE ParseIntent(Concat(reply))]

\* What detect_intent returns: the update of issue_type.
detect_intent_update(state, reply) == [issue_type |-> ParseIntent(Concat(reply))]

\* Variant: the specialist also records itself as the current agent.
agent_update_names_agent(state, reply) ==
    [messages |-> <<[type |-> "ai", content |-> Concat(reply.chunks),
                     tool_calls |-> reply.tool_calls]>>,
     current_agent |-> <<"a","g","e","n","t">>]

\* Variant: the update holds the whole history and the response.
agent_update_whole_history(state, reply) ==
    [messages |-> state.messages \o
        <<[type |-> "ai", content |-> Concat(reply.chunks),
           tool_calls |-> reply.tool_calls]>>]

\* What a specialist returns: the update holding its one response message,
\* the model's AIMessage as it is, tool-call requests included.
agent_update(state, reply) ==
    [messages |-> <<[type |-> "ai", content |-> Concat(reply.chunks),
                     tool_calls |-> reply.tool_calls]>>]

\* --------------------------------------------------- collaborators
\* The graph registry of the service: the graph ids it knows.
Registry == {"uk_housing"}

\* The persisted state of a thread, the empty state when it has none.
get_state(cp, tid) == IF tid \in DOMAIN cp THEN cp[tid] ELSE EmptyState

\* The checkpoints with the state of thread tid replaced by state.
put_state(cp, tid, state) ==
    [t \in DOMAIN cp \cup {tid} |-> IF t = tid THEN state ELSE cp[t]]

\* uuid4(): the n-th identifier generated, different for every n.
uuid4(n) == ToString(n)

\* ------------------------------------------------------ adapter: helpers
\* Variant: the generated identifier is always the same.
new_thread_id_constant(n) == <<"thread-", uuid4(0)>>

\* f"thread-{uuid4()}"
new_thread_id(n) == <<"thread-", uuid4(n)>>

\* Variants: the caller's id is ignored; only None counts as absent.
select_thread_id_always_new(supplied, n) == new_thread_id(n)

select_thread_id_not_none(supplied, n) ==
    IF supplied # None THEN supplied ELSE new_thread_id(n)

\* request.thread_id or f"thread-{uuid4()}"
select_thread_id(supplied, n) ==
    IF Truthy(supplied) THEN supplied ELSE new_thread_id(n)

\* HTTPException(404) of _get_graph_or_404.
not_found(graph_id) ==
    [status |-> 404,
     detail |-> <<"Graph/Model '", graph_id, "' not found">>,
     choices |-> <<>>]

\* Variant: the failure is returned as the content of a completion.
server_error_as_completion(e) ==
    [status |-> 200,
     detail |-> <<>>,
     choices |-> <<[index |-> 0, role |-> "assistant",
                    content |-> <<e>>, finish_reason |-> "stop"]>>]

\* HTTPException(500) of _chat_completion_non_streaming.
server_error(e) ==
    [status |-> 500,
     detail |-> <<"Error processing request: ", e>>,
     choices |-> <<>>]

\* "No response generated"
NoResponseGenerated ==
    <<"N","o"," ","r","e","s","p","o","n","s","e"," ",
      "g","e","n","e","r","a","t","e","d">>

\* Variant: the first message is returned.
response_content_first(messages) ==
    IF messages = <<>>
    THEN NoResponseGenerated
    ELSE messages[1].content

\* The content the blocking mode returns for the final state's messages.
response_content(messages) ==
    IF messages = <<>>
    THEN NoResponseGenerated
    ELSE messages[Len(messages)].content

\* The characters of a role name.
RoleText(role) ==
    CASE role = "system"    -> <<"s","y","s","t","e","m">>
      [] role = "user"      -> <<"u","s","e","r">>
      [] role = "assistant" -> <<"a","s","s","i","s","t","a","n","t">>
      [] role = "tool"      -> <<"t","o","o","l">>
      [] role = "User"      -> <<"U","s","e","r">>
      [] role = ""          -> <<>>

\* repr() of a str that holds no quote character: the text between single
\* quotes, a newline, a tab and a backslash written as two characters.
RECURSIVE escaped(_)
escaped(s) ==
    IF s = <<>> THEN <<>>
    ELSE (CASE Head(s) = "\n" -> <<"\\", "n">>
            [] Head(s) = "\t" -> <<"\\", "t">>
            [] Head(s) = "\\" -> <<"\\", "\\">>
            [] OTHER -> <<Head(s)>>) \o escaped(Tail(s))

repr_str(s) == <<"'">> \o escaped(s) \o <<"'">>

\* repr() of a ChatMessage: ChatMessage(role='..', content='..').
repr_ChatMessage(msg) ==
    <<"C","h","a","t","M","e","s","s","a","g","e","(","r","o","l","e","=">>
    \o repr_str(RoleText(msg.role))
    \o <<",", " ", "c","o","n","t","e","n","t","=">>
    \o repr_str(msg.content)
    \o <<")">>

\* str() of a list of ChatMessage: the repr of each, separated by a comma
\* and a space, between brackets.
RECURSIVE joined(_)
joined(messages) ==
    IF messages = <<>> THEN <<>>
    ELSE IF Len(messages) = 1 THEN repr_ChatMessage(Head(messages))
    ELSE repr_ChatMessage(Head(messages)) \o <<",", " ">> \o joined(Tail(messages))

str_messages(messages) == <<"[">> \o joined(messages) \o <<"]">>

\* Variant: total_tokens is the prompt's figure.
usage_total_is_prompt(messages, content) ==
    [prompt_tokens |-> Len(str_messages(messages)),
     completion_tokens |-> Len(content),
     total_tokens |-> Len(str_messages(messages))]

\* ChatCompletionUsage of _chat_completion_non_streaming, for the request's
\* messages and the content returned.
usage(messages, content) ==
    [prompt_tokens |-> Len(str_messages(messages)),
     completion_tokens |-> Len(content),
     total_tokens |-> Len(str_messages(messages)) + Len(content)]

\* ChatCompletionResponse of _chat_completion_non_streaming.
completion_response(req, result) ==
    [status |-> 200,
     detail |-> <<>>,
     choices |-> <<[index |-> 0, role |-> "assistant",
                    content |-> response_content(result.messages),
                    finish_reason |-> "stop"]>>,
     usage |-> usage(req.messages, response_content(result.messages))]

\* The items _stream_chat_completion yields.
content_chunk(content) ==
    [kind |-> "chunk", content |-> content, finish_reason |-> "null"]
stop_chunk == [kind |-> "chunk", content |-> <<>>, finish_reason |-> "stop"]
done_line == [kind |-> "[DONE]", content |-> <<>>, finish_reason |-> "-"]
error_event(e) == [kind |-> "error", content |-> <<e>>, finish_reason |-> "-"]

\* The events astream_events delivers for a model reply, one per chunk.
token_events(reply) ==
    [i \in 1..Len(reply) |-> [event |-> "on_chat_model_stream", content |-> reply[i]]]


\* No exception: the value an operator returns when nothing is raised.
NoResponse == [status |-> 0, detail |-> <<>>, choices |-> <<>>]

\* No direct call has been made.
NoProbe == [fn |-> "none", input |-> None, output |-> None]

\* get_graph of the service raises for an id the registry does not hold.
get_graph_raises(graph_id) == graph_id \notin Registry

\* Variant: the lookup never raises.
_get_graph_or_404_unchecked(graph_id) == NoResponse

\* The exception _get_graph_or_404 raises, NoResponse when it returns.
_get_graph_or_404(graph_id) ==
    IF get_graph_raises(graph_id) THEN not_found(graph_id) ELSE NoResponse

\* ------------------------------------------------------------- inputs
hi == <<"h","i">>
T1 == <<"t","1">>

\* The request bodies a client sends: a known and an unknown model id, both
\* modes, no thread_id, an empty one and a named one, and message lists
\* holding a role the adapter does not know, with and without a known one.
Models == {"uk_housing", "nonexistent-graph"}
SuppliedThreadIds == {None, <<>>, T1}
MsgLists ==
    { <<[role |-> "tool", content |-> <<"t">>], [role |-> "user", content |-> hi]>>,
      <<[role |-> "tool", content |-> <<"t">>]>> }
Requests ==
    [model : Models, messages : MsgLists, stream : BOOLEAN,
     thread_id : SuppliedThreadIds]

\* Replies of the classifier's model, as the chunks it streams: an exact
\* label, a padded mixed-case label in two chunks, an out-of-set word.
IntentReplies ==
    { <<heating>>,
      <<<<" ","D","a">>, <<"M","P","\n">>>>,
      <<<<"b","o","i","l","e","r">>>> }

\* The tools bound to every specialist's model.
TOOLS ==
    {"search_housing_knowledge", "get_boiler_info", "get_repair_guidance",
     "schedule_engineer", "escalate_to_human"}

\* Replies of a specialist's model, which has TOOLS bound: the chunks of its
\* content and the tool calls it requests. A reply of two content chunks
\* around an empty one, and a reply without content that requests a tool.
AgentReplies ==
    { [chunks |-> <<<<"o">>, <<>>, <<"k">>>>, tool_calls |-> <<>>],
      [chunks |-> <<<<>>>>, tool_calls |-> <<"get_boiler_info">>] }

\* The message of a failed model call.
UpstreamError == "upstream model error"

\* ------------------------------------------------------------ state
Req == 1..MaxInFlight

VARIABLES
    pc,          \* per request slot: where the adapter is
    request,     \* per slot: the ChatCompletionRequest
    thread_id,   \* per slot: the thread id of the run configuration
    gpc,         \* per slot: the node the graph run is at
    st,          \* per slot: the state of the graph run
    loaded,      \* per slot: the state the run found on its thread
    path,        \* per slot: the nodes the run has executed, in order
    llm_calls,   \* per slot: the model calls of the run, in order
    evq,         \* per slot: events of astream_events not yet consumed
    out,         \* per slot: the items yielded on the event stream
    resp,        \* per slot: the HTTP response (status 0: none yet)
    checkpoints, \* thread id -> persisted conversation state
    nuuid,       \* thread identifiers generated so far
    nreq,        \* requests received so far
    turns,       \* thread id -> the completed turns, in order
    tidlog,      \* the accepted requests' supplied and chosen thread ids
    probe        \* the last direct call of a pure function: input, output

vars == <<pc, request, thread_id, gpc, st, loaded, path, llm_calls, evq,
          out, resp, checkpoints, nuuid, nreq, turns, tidlog, probe>>

NoRequest ==
    [model |-> "", messages |-> <<>>, stream |-> FALSE, thread_id |-> None]

Init ==
    /\ pc = [r \in Req |-> "idle"]
    /\ request = [r \in Req |-> NoRequest]
    /\ thread_id = [r \in Req |-> None]
    /\ gpc = [r \in Req |-> "none"]
    /\ st = [r \in Req |-> EmptyState]
    /\ loaded = [r \in Req |-> EmptyState]
    /\ path = [r \in Req |-> <<>>]
    /\ llm_calls = [r \in Req |-> <<>>]
    /\ evq = [r \in Req |-> <<>>]
    /\ out = [r \in Req |-> <<>>]
    /\ resp = [r \in Req |-> NoResponse]
    /\ checkpoints = <<>>
    /\ nuuid = 0
    /\ nreq = 0
    /\ turns = <<>>
    /\ tidlog = <<>>
    /\ probe = NoProbe


\* ------------------------------------------------------------ actions
\* POST /v1/chat/completions: the handler up to the point where it returns
\* the StreamingResponse or starts the blocking call.
create_chat_completion(r, req) ==
    /\ pc[r] = "idle"
    /\ \A q \in Req : q < r => pc[q] # "idle"
    /\ LET exc == _get_graph_or_404(req.model)
           tid == select_thread_id(req.thread_id, nuuid + 1)
       IN  /\ request' = [request EXCEPT ![r] = req]
           /\ nreq' = nreq + 1
           /\ IF exc.status = 404
              THEN /\ resp' = [resp EXCEPT ![r] = exc]
                   /\ pc' = [pc EXCEPT ![r] = "done"]
                   /\ UNCHANGED <<thread_id, nuuid, tidlog>>
              ELSE /\ thread_id' = [thread_id EXCEPT ![r] = tid]
                   /\ nuuid' = IF tid = new_thread_id(nuuid + 1)
                               THEN nuuid + 1 ELSE nuuid
                   /\ tidlog' = Append(tidlog,
                                  [supplied |-> req.thread_id, tid |-> tid])
                   /\ IF req.stream
                      THEN /\ resp' = [resp EXCEPT ![r] =
                                         [NoResponse EXCEPT !.status = 200]]
                           /\ pc' = [pc EXCEPT ![r] = "stream"]
                      ELSE /\ resp' = resp
                           /\ pc' = [pc EXCEPT ![r] = "invoke"]
    /\ UNCHANGED <<probe, gpc, st, loaded, path, llm_calls, evq, out, checkpoints, turns>>

\* Variant: the run configuration gets an id of its own.
config_thread_id_fresh(r) == <<"thread-", "config">>

\* The thread id the adapter puts in the run configuration.
config_thread_id(r) == thread_id[r]

\* Variant: the run waits until no other run is under way on its thread.
may_invoke_serialized(r) ==
    /\ pc[r] \in {"invoke", "stream"}
    /\ gpc[r] = "none"
    /\ \A q \in Req \ {r} :
         (pc[q] # "idle" /\ thread_id[q] = thread_id[r]) =>
             gpc[q] \in {"none", "__end__", "failed", "cancelled"}

\* Variant: a request identical to one whose run has started is not run.
may_invoke_unless_repeated(r) ==
    /\ pc[r] \in {"invoke", "stream"}
    /\ gpc[r] = "none"
    /\ \A q \in Req \ {r} :
         (pc[q] # "idle" /\ request[q] = request[r]) => gpc[q] = "none"

\* When the adapter invokes the graph: as soon as the request is accepted;
\* it takes no lock and waits for no other request.
may_invoke(r) ==
    /\ pc[r] \in {"invoke", "stream"}
    /\ gpc[r] = "none"

\* graph.ainvoke / graph.astream_events: the adapter converts the request's
\* messages and the run starts: the thread's state is loaded, the input is
\* merged into it and the result is saved. One step, for requests whose
\* thread no other request uses meanwhile.
graph_invoke(r) ==
    /\ may_invoke(r)
    /\ LET input == _convert_messages_to_langgraph_format(request[r].messages)
           tid   == config_thread_id(r)
           prior == get_state(checkpoints, tid)
           state == [prior EXCEPT !.messages = add_messages(@, input)]
       IN  /\ st' = [st EXCEPT ![r] = state]
           /\ loaded' = [loaded EXCEPT ![r] = prior]
           /\ checkpoints' = put_state(checkpoints, tid, state)
           /\ turns' = IF tid \in DOMAIN turns THEN turns
                       ELSE put_state(turns, tid, <<>>)
           /\ gpc' = [gpc EXCEPT ![r] = next_node("__start__", state)]
    /\ path' = [path EXCEPT ![r] = <<"__start__">>]
    /\ evq' = [evq EXCEPT ![r] =
                 IF request[r].stream
                 THEN <<[event |-> "on_chain_start", content |-> <<>>]>>
                 ELSE <<>>]
    /\ UNCHANGED <<probe, pc, request, thread_id, llm_calls, out, resp, nuuid, nreq, tidlog>>

\* The start of a run as the two steps it is when another request may use
\* the thread in between. First the engine reads the thread's persisted
\* state, which becomes the state of the run.
graph_load(r) ==
    /\ may_invoke(r)
    /\ LET prior == get_state(checkpoints, config_thread_id(r))
       IN  /\ st' = [st EXCEPT ![r] = prior]
           /\ loaded' = [loaded EXCEPT ![r] = prior]
    /\ gpc' = [gpc EXCEPT ![r] = "__start__"]
    /\ UNCHANGED <<probe, pc, request, thread_id, path, llm_calls, evq, out, resp,
                   checkpoints, nuuid, nreq, turns, tidlog>>

\* Then the input is merged into the state of the run and the result is
\* saved as the thread's state.
graph_save_input(r) ==
    /\ gpc[r] = "__start__"
    /\ LET input == _convert_messages_to_langgraph_format(request[r].messages)
           tid   == config_thread_id(r)
           state == [st[r] EXCEPT !.messages = add_messages(@, input)]
       IN  /\ st' = [st EXCEPT ![r] = state]
           /\ checkpoints' = put_state(checkpoints, tid, state)
           /\ turns' = IF tid \in DOMAIN turns THEN turns
                       ELSE put_state(turns, tid, <<>>)
           /\ gpc' = [gpc EXCEPT ![r] = next_node("__start__", state)]
    /\ path' = [path EXCEPT ![r] = <<"__start__">>]
    /\ evq' = [evq EXCEPT ![r] =
                 IF request[r].stream
                 THEN <<[event |-> "on_chain_start", content |-> <<>>]>>
                 ELSE <<>>]
    /\ UNCHANGED <<probe, pc, request, thread_id, loaded, llm_calls, out, resp,
                   nuuid, nreq, tidlog>>

\* The record of one model call: the node, its system prompt, the history
\* it was given, the content of the reply (None when the call raised) and
\* the chunks the reply arrived in.
llm_call(node, messages, reply, chunks) ==
    [node |-> node, system |-> Persona(node), messages |-> messages,
     reply |-> reply, chunks |-> chunks]

\* The events of a model reply reach the event stream in streaming mode only.
emitted(r, reply) == IF request[r].stream THEN token_events(reply) ELSE <<>>

\* The classifier node when its model replies reply: one model call,
\* issue_type written and saved.
detect_intent_on(r, reply) ==
    /\ gpc[r] = "detect_intent"
    /\ LET update == detect_intent_update(st[r], reply)
           state  == apply_update(st[r], update)
       IN  /\ st' = [st EXCEPT ![r] = state]
           /\ checkpoints' = put_state(checkpoints, config_thread_id(r), state)
           /\ gpc' = [gpc EXCEPT ![r] = next_node("detect_intent", state)]
           /\ llm_calls' = [llm_calls EXCEPT ![r] =
                Append(@, llm_call("detect_intent", st[r].messages, Concat(reply), reply))]
           /\ evq' = [evq EXCEPT ![r] = @ \o emitted(r, reply)]
    /\ path' = [path EXCEPT ![r] = Append(@, "detect_intent")]
    /\ UNCHANGED <<probe, pc, request, thread_id, loaded, out, resp, nuuid, nreq,
                   turns, tidlog>>

\* The classifier node, for the replies of IntentReplies.
detect_intent(r) == \E reply \in IntentReplies : detect_intent_on(r, reply)

\* A specialist node (heating_agent, damp_agent, repairs_agent or
\* general_agent) when its model replies reply: one model call, its
\* response appended and saved.
specialist_agent_on(r, reply) ==
    /\ gpc[r] \in AgentNodes
    /\ LET update == agent_update(st[r], reply)
           state  == apply_update(st[r], update)
           tid    == config_thread_id(r)
       IN  /\ st' = [st EXCEPT ![r] = state]
           /\ checkpoints' = put_state(checkpoints, tid, state)
           /\ gpc' = [gpc EXCEPT ![r] = next_node(gpc[r], state)]
           /\ llm_calls' = [llm_calls EXCEPT ![r] =
                Append(@, llm_call(gpc[r], st[r].messages, Concat(reply.chunks),
                                   reply.chunks))]
           /\ evq' = [evq EXCEPT ![r] = @ \o emitted(r, reply.chunks)]
           /\ turns' = [turns EXCEPT ![tid] = Append(@,
                [input |-> _convert_messages_to_langgraph_format(request[r].messages),
                 reply |-> update.messages[1]])]
    /\ path' = [path EXCEPT ![r] = Append(@, gpc[r])]
    /\ UNCHANGED <<probe, pc, request, thread_id, loaded, out, resp, nuuid, nreq, tidlog>>

\* A specialist node, for the replies of AgentReplies.
specialist_agent(r) == \E reply \in AgentReplies : specialist_agent_on(r, reply)

\* The model call of the node the run is at raises: the run fails.
model_call_fails(r) ==
    /\ gpc[r] \in AgentNodes \cup {"detect_intent"}
    /\ gpc' = [gpc EXCEPT ![r] = "failed"]
    /\ path' = [path EXCEPT ![r] = Append(@, gpc[r])]
    /\ llm_calls' = [llm_calls EXCEPT ![r] =
         Append(@, llm_call(gpc[r], st[r].messages, None, <<>>))]
    /\ UNCHANGED <<probe, pc, request, thread_id, st, loaded, evq, out, resp,
                   checkpoints, nuuid, nreq, turns, tidlog>>


\* Variant: the handler puts back the state the run found on its thread.
after_exception_restored(cp, tid, prior) == put_state(cp, tid, prior)

\* The persisted states after the except clause of the adapter has handled
\* a failed run on thread tid, which had found the state prior there: the
\* clause logs the error and reports it, and writes nothing to the thread.
after_exception(cp, tid, prior) == cp

\* _chat_completion_non_streaming after graph.ainvoke: the response built
\* from the final state, or HTTP 500 when the run raised.
_chat_completion_non_streaming(r) ==
    /\ pc[r] = "invoke"
    /\ gpc[r] \in {"__end__", "failed"}
    /\ resp' = [resp EXCEPT ![r] =
         IF gpc[r] = "__end__" THEN completion_response(request[r], st[r])
         ELSE server_error(UpstreamError)]
    /\ checkpoints' =
         IF gpc[r] = "failed"
         THEN after_exception(checkpoints, thread_id[r], loaded[r])
         ELSE checkpoints
    /\ pc' = [pc EXCEPT ![r] = "done"]
    /\ UNCHANGED <<probe, request, thread_id, gpc, st, loaded, path, llm_calls, evq,
                   out, nuuid, nreq, turns, tidlog>>

\* Variant: every event yields a chunk.
chunks_for_all(event) == <<content_chunk(event.content)>>

\* The chunks _stream_chat_completion yields for one event: a content chunk
\* for a model token event with non-empty content, nothing otherwise.
chunks_for(event) ==
    IF event.event = "on_chat_model_stream" /\ event.content # <<>>
    THEN <<content_chunk(event.content)>>
    ELSE <<>>

\* One iteration of the async for of _stream_chat_completion.
stream_event(r) ==
    /\ pc[r] = "stream"
    /\ evq[r] # <<>>
    /\ out' = [out EXCEPT ![r] = @ \o chunks_for(Head(evq[r]))]
    /\ evq' = [evq EXCEPT ![r] = Tail(@)]
    /\ UNCHANGED <<probe, pc, request, thread_id, gpc, st, loaded, path, llm_calls,
                   resp, checkpoints, nuuid, nreq, turns, tidlog>>

\* Variants: the final chunk follows the error event; a failure yields
\* nothing; no final chunk is yielded.
stream_end_items_error_then_stop(failed) ==
    IF failed THEN <<error_event(UpstreamError), stop_chunk>> ELSE <<stop_chunk>>

stream_end_items_silent(failed) ==
    IF failed THEN <<>> ELSE <<stop_chunk>>

stream_end_items_no_stop(failed) ==
    IF failed THEN <<error_event(UpstreamError)>> ELSE <<>>

\* What the generator yields once the event stream is exhausted: the final
\* chunk when it ended, the error event when it raised.
stream_end_items(failed) ==
    IF failed THEN <<error_event(UpstreamError)>> ELSE <<stop_chunk>>

\* The event stream is exhausted: the final chunk is yielded, or the
\* exception handler yields the error event and the generator returns.
stream_end(r) ==
    /\ pc[r] = "stream"
    /\ evq[r] = <<>>
    /\ gpc[r] \in {"__end__", "failed"}
    /\ out' = [out EXCEPT ![r] = @ \o stream_end_items(gpc[r] = "failed")]
    /\ checkpoints' =
         IF gpc[r] = "failed"
         THEN after_exception(checkpoints, thread_id[r], loaded[r])
         ELSE checkpoints
    /\ pc' = [pc EXCEPT ![r] = IF gpc[r] = "failed" THEN "done" ELSE "stop_sent"]
    /\ UNCHANGED <<probe, request, thread_id, gpc, st, loaded, path, llm_calls, evq,
                   resp, nuuid, nreq, turns, tidlog>>

\* The last yield of the generator: the sentinel line.
stream_done(r) ==
    /\ pc[r] = "stop_sent"
    /\ out' = [out EXCEPT ![r] = Append(@, done_line)]
    /\ pc' = [pc EXCEPT ![r] = "done"]
    /\ UNCHANGED <<probe, request, thread_id, gpc, st, loaded, path, llm_calls, evq,
                   resp, checkpoints, nuuid, nreq, turns, tidlog>>

\* Variant: the run goes on after the caller has gone.
run_after_disconnect_detached(g) == g

\* What becomes of a graph run at node g when its event iterator is closed:
\* a run that is not over is cancelled where it is.
run_after_disconnect(g) ==
    IF g \in {"__end__", "failed"} THEN g ELSE "cancelled"

\* The caller disconnects while the streaming response is being sent: the
\* generator is cancelled at the point where it is suspended, which closes
\* the event iterator; no except clause of the generator catches this.
client_disconnects(r) ==
    /\ pc[r] \in {"stream", "stop_sent"}
    /\ pc' = [pc EXCEPT ![r] = "disconnected"]
    /\ gpc' = [gpc EXCEPT ![r] =
                 IF @ = "none" THEN @ ELSE run_after_disconnect(@)]
    /\ UNCHANGED <<probe, request, thread_id, st, loaded, path, llm_calls, evq,
                   out, resp, checkpoints, nuuid, nreq, turns, tidlog>>

\* The response has been sent: the request's objects are discarded.
release(r) ==
    /\ pc[r] \in {"done", "disconnected"}
    /\ pc' = [pc EXCEPT ![r] = "idle"]
    /\ request' = [request EXCEPT ![r] = NoRequest]
    /\ thread_id' = [thread_id EXCEPT ![r] = None]
    /\ gpc' = [gpc EXCEPT ![r] = "none"]
    /\ st' = [st EXCEPT ![r] = EmptyState]
    /\ loaded' = [loaded EXCEPT ![r] = EmptyState]
    /\ path' = [path EXCEPT ![r] = <<>>]
    /\ llm_calls' = [llm_calls EXCEPT ![r] = <<>>]
    /\ evq' = [evq EXCEPT ![r] = <<>>]
    /\ out' = [out EXCEPT ![r] = <<>>]
    /\ resp' = [resp EXCEPT ![r] = NoResponse]
    /\ UNCHANGED <<probe, checkpoints, nuuid, nreq, turns, tidlog>>

\* No request is being served.
AllIdle == \A q \in Req : pc[q] = "idle"

\* A request of a client that waits for each response before it sends the
\* next request.
receive(r) ==
    /\ AllIdle
    /\ nreq < MaxReq
    /\ \E req \in Requests : create_chat_completion(r, req)

\* Requests arrive one after the other.
Next ==
    \E r \in Req :
        \/ receive(r)
        \/ graph_invoke(r)
        \/ detect_intent(r)
        \/ specialist_agent(r)
        \/ model_call_fails(r)
        \/ _chat_completion_non_streaming(r)
        \/ stream_event(r)
        \/ stream_end(r)
        \/ stream_done(r)
        \/ release(r)

Spec == Init /\ [][Next]_vars

\* ------------------------------------------------- direct calls
\* All sequences over S of length at most n.
BoundedSeq(S, n) == UNION {[1..k -> S] : k \in 0..n}

\* Pieces a model reply is made of: whitespace, labels in several cases,
\* a character that belongs to no label.
Pieces ==
    { <<" ">>, <<"\n">>, heating, <<"D","a","m","P">>,
      <<"R","E","P","A","I","R","S">>, general, <<"x">> }
ProbeReplies == BoundedSeq(Pieces, MaxReplyLen)

\* States route_to_agent may be handed: issue_type missing, None or any text.
RouteStates ==
    {[messages |-> <<>>]}
    \cup {[messages |-> <<>>, issue_type |-> None, current_agent |-> None]}
    \cup {[messages |-> <<>>, issue_type |-> Concat(p), current_agent |-> None] :
             p \in ProbeReplies}

\* Request messages: the three known roles, an unknown one, a known one in
\* another case and the empty role, with and without content.
ProbeMessages ==
    [role : {"system", "user", "assistant", "tool", "User", ""},
     content : {hi, <<>>}]
ProbeMsgLists == BoundedSeq(ProbeMessages, MaxMsgs)

RunVars == <<pc, request, thread_id, gpc, st, loaded, path, llm_calls, evq,
             out, resp, checkpoints, nuuid, nreq, turns, tidlog>>

probe_detect_intent ==
    /\ probe = NoProbe /\ nreq = 0 /\ AllIdle
    /\ \E reply \in ProbeReplies :
         probe' = [fn |-> "detect_intent", input |-> reply,
                   output |-> detect_intent_update(EmptyState, reply)]
    /\ UNCHANGED RunVars

probe_route_to_agent ==
    /\ probe = NoProbe /\ nreq = 0 /\ AllIdle
    /\ \E state \in RouteStates :
         probe' = [fn |-> "route_to_agent", input |-> state,
                   output |-> route_to_agent(state)]
    /\ UNCHANGED RunVars

probe_convert_messages ==
    /\ probe = NoProbe /\ nreq = 0 /\ AllIdle
    /\ \E messages \in ProbeMsgLists :
         probe' = [fn |-> "_convert_messages_to_langgraph_format",
                   input |-> messages,
                   output |-> _convert_messages_to_langgraph_format(messages)]
    /\ UNCHANGED RunVars

\* States a node may be handed: with and without history, issue_type and
\* current_agent.
NodeStates ==
    [messages : {<<>>, <<[type |-> "human", content |-> hi]>>},
     issue_type : {None, heating},
     current_agent : {None, <<"x">>}]

\* A node run on its own: the state its update leaves.
probe_node ==
    /\ probe = NoProbe /\ nreq = 0 /\ AllIdle
    /\ \E state \in NodeStates :
         \/ \E reply \in IntentReplies :
              probe' = [fn |-> "detect_intent node", input |-> state,
                        output |-> apply_update(state,
                                      detect_intent_update(state, reply))]
         \/ \E reply \in AgentReplies :
              probe' = [fn |-> "specialist node", input |-> state,
                        output |-> apply_update(state, agent_update(state, reply))]
    /\ UNCHANGED RunVars

\* Contents a response may carry: none, a short reply, the fallback text.
ProbeContents == { <<>>, <<"o", "k">>, NoResponseGenerated }

probe_usage ==
    /\ probe = NoProbe /\ nreq = 0 /\ AllIdle
    /\ \E messages \in ProbeMsgLists : \E content \in ProbeContents :
         probe' = [fn |-> "usage",
                   input |-> [messages |-> messages, content |-> content],
                   output |-> usage(messages, content)]
    /\ UNCHANGED RunVars

\* The blocking requests for the known graph on the named thread.
PureRequests ==
    {req \in Requests :
        req.model \in Registry /\ ~req.stream /\ req.thread_id = T1}

\* Such a request, received when no function has been called directly.
receive_unprobed(r) ==
    /\ probe = NoProbe
    /\ AllIdle
    /\ nreq < MaxReq
    /\ \E req \in PureRequests : create_chat_completion(r, req)

\* Each function called directly, once, on an input of the sets above; or
\* blocking requests, one after the other.
NextPure ==
    \/ probe_detect_intent
    \/ probe_route_to_agent
    \/ probe_convert_messages
    \/ probe_usage
    \/ probe_node
    \/ \E r \in Req :
        \/ receive_unprobed(r)
        \/ graph_invoke(r)
        \/ detect_intent(r)
        \/ specialist_agent(r)
        \/ model_call_fails(r)
        \/ _chat_completion_non_streaming(r)
        \/ release(r)

SpecPure == Init /\ [][NextPure]_vars



\* ------------------------------------------------- streaming callers
\* The streaming requests for the known graph on the named thread.
StreamRequests ==
    {req \in Requests :
        req.model \in Registry /\ req.stream /\ req.thread_id = T1}

receive_stream(r) ==
    /\ AllIdle
    /\ nreq < MaxReq
    /\ \E req \in StreamRequests : create_chat_completion(r, req)

\* Streaming requests, one after the other, of a caller that may disconnect
\* while a response is being sent.
NextStream ==
    \E r \in Req :
        \/ receive_stream(r)
        \/ graph_invoke(r)
        \/ detect_intent(r)
        \/ specialist_agent(r)
        \/ model_call_fails(r)
        \/ stream_event(r)
        \/ stream_end(r)
        \/ stream_done(r)
        \/ client_disconnects(r)
        \/ release(r)

SpecStream == Init /\ [][NextStream]_vars

\* ------------------------------------------------- concurrent requests
\* The callers of the concurrent requests: one that names its thread, one
\* that names none; they differ in identity and in sampling temperature
\* (in tenths).
Callers ==
    { [thread_id |-> T1,   user |-> "alice", temperature |-> 0],
      [thread_id |-> None, user |-> "bob",   temperature |-> 7] }

\* Their blocking requests for the known graph, with the same messages.
ConcRequests ==
    { [model |-> "uk_housing",
       messages |-> <<[role |-> "tool", content |-> <<"t">>],
                      [role |-> "user", content |-> hi]>>,
       stream |-> FALSE,
       thread_id |-> c.thread_id, user |-> c.user,
       temperature |-> c.temperature] : c \in Callers }

\* The replies of the models in the concurrent runs.
ConcIntentReplies == { <<heating>>, <<damp>> }
ConcAgentReplies == { [chunks |-> <<<<"o">>, <<>>, <<"k">>>>, tool_calls |-> <<>>] }

\* The thread no request in flight is using.
ThreadFree(tid) == \A q \in Req : pc[q] # "idle" => thread_id[q] # tid

\* A request arrives while others are being served; its thread is not the
\* thread of any of them.
receive_other_thread(r) ==
    /\ nreq < MaxConcReq
    /\ \E req \in ConcRequests :
         /\ ThreadFree(select_thread_id(req.thread_id, nuuid + 1))
         /\ create_chat_completion(r, req)

\* A request on the named thread arrives, while others on that thread may
\* be being served.
receive_same_thread(r) ==
    /\ nreq < MaxConcReq
    /\ \E req \in {q \in ConcRequests : q.thread_id = T1} :
         create_chat_completion(r, req)

detect_intent_conc(r) ==
    \E reply \in ConcIntentReplies : detect_intent_on(r, reply)

specialist_agent_conc(r) ==
    \E reply \in ConcAgentReplies : specialist_agent_on(r, reply)

\* Requests served concurrently, each on a thread of its own.
NextThreads ==
    \E r \in Req :
        \/ receive_other_thread(r)
        \/ graph_invoke(r)
        \/ detect_intent_conc(r)
        \/ specialist_agent_conc(r)
        \/ model_call_fails(r)
        \/ _chat_completion_non_streaming(r)
        \/ release(r)

SpecThreads == Init /\ [][NextThreads]_vars

\* Requests served concurrently, all of them on one thread.
NextShared ==
    \E r \in Req :
        \/ receive_same_thread(r)
        \/ graph_load(r)
        \/ graph_save_input(r)
        \/ detect_intent_conc(r)
        \/ specialist_agent_conc(r)
        \/ _chat_completion_non_streaming(r)
        \/ release(r)

SpecShared == Init /\ [][NextShared]_vars

\* ------------------------------------------------- every category
\* Replies of the classifier's model that name each of the four categories.
CategoryReplies == { <<heating>>, <<damp>>, <<repairs>>, <<general>> }

detect_intent_category(r) ==
    \E reply \in CategoryReplies : detect_intent_on(r, reply)

\* A blocking request on the named thread, when no request is being served.
receive_blocking(r) ==
    /\ AllIdle
    /\ nreq < MaxReq
    /\ \E req \in PureRequests : create_chat_completion(r, req)

\* The step of the graph run of slot r, whichever node it is at.
graph_step(r) ==
    \/ graph_invoke(r)
    \/ detect_intent_category(r)
    \/ specialist_agent(r)

\* Blocking requests, one after the other, classified into every category.
NextGraph ==
    \E r \in Req :
        \/ receive_blocking(r)
        \/ graph_invoke(r)
        \/ detect_intent_category(r)
        \/ specialist_agent(r)
        \/ model_call_fails(r)
        \/ _chat_completion_non_streaming(r)
        \/ release(r)

SpecGraph == Init /\ [][NextGraph]_vars

\* The same, where a run whose next node can run is not left waiting for
\* ever: the event loop resumes a node whose model call has returned.
FairSpecGraph == SpecGraph /\ \A r \in Req : WF_vars(graph_step(r))

\* ------------------------------------------------- repeated requests
\* One request body, sent again and again in either mode: the known graph,
\* the same messages, no thread_id.
RepeatRequests ==
    [model : {"uk_housing"},
     messages : {<<[role |-> "tool", content |-> <<"t">>],
                   [role |-> "user", content |-> hi]>>},
     stream : BOOLEAN,
     thread_id : {None}]

\* Such a request arrives, while earlier ones may still be being served.
receive_repeat(r) ==
    /\ nreq < MaxReq
    /\ \E req \in RepeatRequests : create_chat_completion(r, req)

\* The same request served several times over, in both modes.
NextRepeat ==
    \E r \in Req :
        \/ receive_repeat(r)
        \/ graph_invoke(r)
        \/ detect_intent_conc(r)
        \/ specialist_agent(r)
        \/ model_call_fails(r)
        \/ _chat_completion_non_streaming(r)
        \/ stream_event(r)
        \/ stream_end(r)
        \/ stream_done(r)
        \/ release(r)

SpecRepeat == Init /\ [][NextRepeat]_vars

\* ===================================================================
\* Properties
\* ===================================================================

\* The run of slot r has executed its classifier and the model call returned.
Classified(r) ==
    /\ Len(llm_calls[r]) >= 1
    /\ llm_calls[r][1].node = "detect_intent"
    /\ llm_calls[r][1].reply # None

\* content, with whitespace removed at both ends and letters in lower case,
\* is the label v.
ReadsAs(content, v) ==
    \E a \in 0..Len(content) : \E b \in a..Len(content) :
        /\ \A k \in 1..a : content[k] \in Whitespace
        /\ \A k \in (b + 1)..Len(content) : content[k] \in Whitespace
        /\ b - a = Len(v)
        /\ \A k \in 1..Len(v) :
             \E i \in DOMAIN LowerCase :
                /\ LowerCase[i] = v[k]
                /\ content[a + k] \in {LowerCase[i], UpperCase[i]}

\* issue_type is the category of a reply with this content: the label the
\* content reads as, general when it reads as none.
CategoryOf(content, issue_type) ==
    /\ issue_type \in valid_types
    /\ \A v \in valid_types : ReadsAs(content, v) => issue_type = v
    /\ (\A v \in valid_types : ~ReadsAs(content, v)) => issue_type = general

\* C1: for every reply of the classifier's model (empty, padded, mixed-case,
\* out-of-set), detect_intent writes an issue_type that is one of heating,
\* damp, repairs, general: the label the reply reads as after trimming and
\* lower-casing, and general when it reads as none of the four; so after
\* classification issue_type is never None, empty or out-of-set.
C1_IssueTypeAlwaysValid ==
    /\ probe.fn = "detect_intent" =>
         CategoryOf(Concat(probe.input), probe.output.issue_type)
    /\ \A r \in Req :
         Classified(r) => CategoryOf(llm_calls[r][1].reply, st[r].issue_type)

\* A padded, out-of-set reply ("heatingx" between whitespace) was classified
\* as general.
C1_Witness ==
    /\ probe.fn = "detect_intent"
    /\ probe.input = <<<<" ">>, heating, <<"x">>>>
    /\ probe.output.issue_type = general

\* The specialist of each category.
AgentOf(v) ==
    CASE v = heating -> "heating_agent"
      [] v = damp    -> "damp_agent"
      [] v = repairs -> "repairs_agent"
      [] v = general -> "general_agent"

\* The nodes a run executes, in order, when it is in category v.
FullPath(v) == <<"__start__", "detect_intent", AgentOf(v)>>

IsPrefix(s, t) == Len(s) <= Len(t) /\ s = SubSeq(t, 1, Len(s))

\* The graph invocation of slot r is over: it reached END or it raised.
Over(r) == gpc[r] \in {"__end__", "failed"}

\* C2 as claimed: in every invocation the classifier runs exactly once and
\* exactly one specialist runs exactly once, in the order start,
\* detect_intent, specialist, end.
C2_EveryInvocationRunsBoth ==
    \A r \in Req :
        Over(r) => \E v \in valid_types : path[r] = FullPath(v)

\* C2 as amended: every invocation executes a prefix of start, detect_intent,
\* one specialist: no node runs twice, none runs after a specialist, none out
\* of order; an invocation that reaches END has run the classifier exactly
\* once and exactly one specialist exactly once, in every turn of a thread;
\* an invocation whose model call raised stopped at the node that raised.
C2_OnePassNoCycle ==
    \A r \in Req :
        /\ \E v \in valid_types : IsPrefix(path[r], FullPath(v))
        /\ gpc[r] = "none" => path[r] = <<>>
        /\ gpc[r] = "detect_intent" => path[r] = <<"__start__">>
        /\ gpc[r] \in AgentNodes => path[r] = <<"__start__", "detect_intent">>
        /\ gpc[r] = "__end__" => \E v \in valid_types : path[r] = FullPath(v)
        /\ gpc[r] = "failed" => Len(path[r]) \in {2, 3}

\* The second turn of a thread has reached END.
C2_Witness ==
    \E r \in Req :
        /\ gpc[r] = "__end__"
        /\ Len(path[r]) = 3
        /\ Len(loaded[r].messages) > 0
        /\ Len(turns[thread_id[r]]) = 2

\* C3: route_to_agent maps heating, damp, repairs and general to their
\* agents and every other issue_type (missing, None, any other text) to
\* general_agent; and the specialist of a run is the one mapped from the
\* issue_type the classifier wrote in that run, whatever issue_type the
\* thread held before.
C3_RouteTotalAndFresh ==
    /\ probe.fn = "route_to_agent" =>
         LET state == probe.input
         IN  probe.output =
               IF "issue_type" \in DOMAIN state /\ state.issue_type \in valid_types
               THEN AgentOf(state.issue_type)
               ELSE "general_agent"
    /\ \A r \in Req :
         /\ gpc[r] \in AgentNodes =>
              Classified(r) /\ gpc[r] = AgentOf(st[r].issue_type)
         /\ Len(path[r]) = 3 =>
              /\ Classified(r)
              /\ CategoryOf(llm_calls[r][1].reply, st[r].issue_type)
              /\ path[r][3] = AgentOf(st[r].issue_type)

\* A run on a thread that held issue_type heating was classified damp and
\* ran damp_agent.
C3_Witness ==
    \E r \in Req :
        /\ loaded[r].issue_type = heating
        /\ st[r].issue_type = damp
        /\ Len(path[r]) = 3
        /\ path[r][3] = "damp_agent"


\* A content-delta chunk: content, finish_reason null.
IsContentChunk(x) ==
    x.kind = "chunk" /\ x.finish_reason = "null" /\ x.content # <<>>

\* Every item of o is a content-delta chunk.
OnlyContent(o) == \A i \in DOMAIN o : IsContentChunk(o[i])

\* Content chunks, then one chunk with finish_reason stop, then the sentinel.
StreamComplete(o) ==
    /\ Len(o) >= 2
    /\ o[Len(o)] = done_line
    /\ o[Len(o) - 1] = stop_chunk
    /\ OnlyContent(SubSeq(o, 1, Len(o) - 2))

\* Content chunks, then one error event.
StreamFailed(o) ==
    /\ Len(o) >= 1
    /\ o[Len(o)].kind = "error"
    /\ OnlyContent(SubSeq(o, 1, Len(o) - 1))

\* Slot r serves a streaming request for a known graph.
Streaming(r) == pc[r] # "idle" /\ request[r].stream /\ request[r].model \in Registry

\* C4 as claimed: every streaming request for a known graph produces content
\* chunks, then exactly one stop chunk, then the sentinel line.
C4_EveryStreamEndsWithDone ==
    \A r \in Req :
        Streaming(r) /\ pc[r] = "done" => StreamComplete(out[r])

\* C4 as amended: a streaming request for a known graph whose event stream
\* ends without raising produces zero or more content chunks (finish_reason
\* null), then exactly one chunk with finish_reason stop, then the sentinel
\* line, and nothing after it; when the event stream raises, the output is
\* the content chunks followed by one error event, with no stop chunk and no
\* sentinel.
C4_StreamShape ==
    \A r \in Req :
        Streaming(r) =>
            /\ pc[r] = "stream" => OnlyContent(out[r])
            /\ pc[r] = "stop_sent" =>
                 /\ Len(out[r]) >= 1
                 /\ out[r][Len(out[r])] = stop_chunk
                 /\ OnlyContent(SubSeq(out[r], 1, Len(out[r]) - 1))
            /\ pc[r] = "done" /\ gpc[r] = "__end__" => StreamComplete(out[r])
            /\ pc[r] = "done" /\ gpc[r] = "failed" => StreamFailed(out[r])
            /\ pc[r] = "done" => gpc[r] \in {"__end__", "failed"}

\* A stream finished with content chunks, the stop chunk and the sentinel.
C4_Witness ==
    \E r \in Req :
        /\ Streaming(r) /\ pc[r] = "done"
        /\ StreamComplete(out[r])
        /\ Len(out[r]) >= 4

\* The number of error events in o.
Errors(o) == Cardinality({i \in DOMAIN o : o[i].kind = "error"})

\* C5: when the graph's event stream fails during a streaming request, before
\* or after content chunks were emitted, the adapter emits exactly one error
\* event, carrying the failure's message, as the last item of the stream: only
\* content chunks precede it, nothing follows it, the generator has returned
\* and the HTTP status stays 200.
C5_ErrorEventLast ==
    \A r \in Req :
        /\ Streaming(r) /\ gpc[r] = "failed" /\ pc[r] # "stream" =>
             /\ pc[r] = "done"
             /\ StreamFailed(out[r])
             /\ Errors(out[r]) = 1
             /\ out[r][Len(out[r])] = error_event(UpstreamError)
             /\ resp[r].status = 200
        /\ Errors(out[r]) > 0 => gpc[r] = "failed" /\ pc[r] = "done"

\* The specialist's model call failed after tokens had been streamed: content
\* chunks precede the error event.
C5_Witness ==
    \E r \in Req :
        /\ Streaming(r) /\ gpc[r] = "failed" /\ pc[r] = "done"
        /\ Len(out[r]) >= 2
        /\ Len(llm_calls[r]) = 2

\* C6: a non-streaming request whose graph run completes returns a response
\* with exactly one choice, index 0, role assistant, finish_reason stop, whose
\* content is the content of the last message of the final state: the message
\* the specialist produced in this invocation.
C6_SingleChoiceLastMessage ==
    \A r \in Req :
        pc[r] = "done" /\ ~request[r].stream /\ gpc[r] = "__end__" =>
            LET last == st[r].messages[Len(st[r].messages)]
            IN  /\ resp[r].status = 200
                /\ Len(resp[r].choices) = 1
                /\ resp[r].choices[1] =
                     [index |-> 0, role |-> "assistant",
                      content |-> last.content, finish_reason |-> "stop"]
                /\ last.type = "ai"
                /\ Len(llm_calls[r]) = 2
                /\ llm_calls[r][2].node \in AgentNodes
                /\ last.content = llm_calls[r][2].reply

\* The second turn of a thread returned the specialist's reply "ok".
C6_Witness ==
    \E r \in Req :
        /\ pc[r] = "done" /\ ~request[r].stream /\ gpc[r] = "__end__"
        /\ Len(loaded[r].messages) >= 2
        /\ Len(request[r].messages) = 2
        /\ resp[r].choices[1].content = <<"o", "k">>

\* Slot r holds a request whose model is no known graph id.
Unknown(r) == pc[r] # "idle" /\ request[r].model \notin Registry

\* C7: a request whose model is not a known graph id is answered with HTTP
\* 404 whose detail contains the id, in both modes; no thread id is chosen,
\* the graph is not invoked, no stream is opened, and receiving it changes
\* neither the persisted conversation states nor the identifiers generated.
C7_UnknownModel404 ==
    /\ [](\A r \in Req :
            Unknown(r) =>
                /\ pc[r] = "done"
                /\ resp[r].status = 404
                /\ \E i \in DOMAIN resp[r].detail :
                      resp[r].detail[i] = request[r].model
                /\ thread_id[r] = None
                /\ gpc[r] = "none" /\ path[r] = <<>> /\ llm_calls[r] = <<>>
                /\ evq[r] = <<>> /\ out[r] = <<>>)
    /\ [][\A r \in Req :
            pc[r] = "idle" /\ pc'[r] # "idle" /\ request'[r].model \notin Registry =>
                /\ checkpoints' = checkpoints
                /\ nuuid' = nuuid
                /\ tidlog' = tidlog]_vars

\* A streaming request for an unknown model was answered 404 while a thread
\* held state.
C7_Witness ==
    \E r \in Req :
        /\ Unknown(r) /\ request[r].stream
        /\ resp[r].status = 404
        /\ DOMAIN checkpoints # {}


\* The messages of a completed turn: its input, then the assistant's reply.
TurnBlock(turn) == turn.input \o <<turn.reply>>

\* The blocks occur in h one after the other, each contiguous, in order.
RECURSIVE Embeds(_, _)
Embeds(blocks, h) ==
    IF blocks = <<>> THEN TRUE
    ELSE LET b == Head(blocks)
         IN  \E i \in 1..(Len(h) - Len(b) + 1) :
                /\ SubSeq(h, i, i + Len(b) - 1) = b
                /\ Embeds(Tail(blocks), SubSeq(h, i + Len(b), Len(h)))

\* The turns of r's thread that completed before r's run: all of the thread's
\* turns, less r's own once r has completed.
TurnsBefore(r) ==
    LET all == turns[thread_id[r]]
    IN  IF gpc[r] = "__end__" THEN SubSeq(all, 1, Len(all) - 1) ELSE all

\* C8: with requests on a thread made one after the other, the history every
\* model call of a request sees (classifier and specialist) ends with the
\* request's own messages, and what precedes them contains, for every turn
\* completed earlier on the thread, that turn's input messages followed by
\* its assistant reply, the turns in order.
C8_HistoryAccumulates ==
    \A r \in Req :
        \A i \in DOMAIN llm_calls[r] :
            LET seen == llm_calls[r][i].messages
                own  == _convert_messages_to_langgraph_format(request[r].messages)
                n    == Len(seen) - Len(own)
            IN  /\ n >= 0
                /\ SubSeq(seen, n + 1, Len(seen)) = own
                /\ Embeds([k \in DOMAIN TurnsBefore(r) |-> TurnBlock(TurnsBefore(r)[k])],
                          SubSeq(seen, 1, n))

\* The specialist of a second request sees the first turn's user message and
\* reply before the request's own user message.
C8_Witness ==
    \E r \in Req :
        /\ Len(llm_calls[r]) = 2
        /\ Len(TurnsBefore(r)) = 1
        /\ Len(TurnsBefore(r)[1].input) = 1
        /\ TurnsBefore(r)[1].reply.content = <<"o", "k">>
        /\ Len(llm_calls[r][2].messages) = 3
        /\ llm_calls[r][2].messages[2].type = "ai"

\* C9 as claimed: the thread id of an accepted request is the caller's
\* thread_id whenever one was supplied, whatever string it is, and otherwise
\* an identifier no other request uses.
C9_SuppliedIdAlwaysUsed ==
    \A i \in DOMAIN tidlog :
        /\ tidlog[i].supplied # None => tidlog[i].tid = tidlog[i].supplied
        /\ tidlog[i].supplied = None =>
             \A j \in DOMAIN tidlog : j # i => tidlog[j].tid # tidlog[i].tid

\* C9 as amended: the thread id of an accepted request is the caller's
\* thread_id whenever the caller supplied a non-empty one; when the caller
\* supplied none or the empty string it is a generated identifier that no
\* other request uses, so two such requests never share conversation state;
\* that id is the one of the run configuration, under which state is saved.
C9_ThreadIdSelection ==
    /\ \A i \in DOMAIN tidlog :
         /\ Truthy(tidlog[i].supplied) => tidlog[i].tid = tidlog[i].supplied
         /\ ~Truthy(tidlog[i].supplied) =>
              /\ tidlog[i].tid # tidlog[i].supplied
              /\ \A j \in DOMAIN tidlog : j # i => tidlog[j].tid # tidlog[i].tid
    /\ \A r \in Req :
         pc[r] # "idle" /\ request[r].model \in Registry =>
            /\ thread_id[r] = tidlog[Len(tidlog)].tid
            /\ request[r].thread_id = tidlog[Len(tidlog)].supplied
            /\ gpc[r] # "none" => thread_id[r] \in DOMAIN checkpoints
    /\ \A t \in DOMAIN checkpoints : \E i \in DOMAIN tidlog : tidlog[i].tid = t

\* Two requests without a usable thread_id (none, empty) ran on two threads.
C9_Witness ==
    /\ Len(tidlog) = 2
    /\ tidlog[1].supplied = None
    /\ tidlog[2].supplied = <<>>
    /\ tidlog[1].tid # tidlog[2].tid
    /\ Cardinality(DOMAIN checkpoints) = 2

\* The positions of the messages with a role the adapter knows.
Kept(messages) ==
    {i \in DOMAIN messages : messages[i].role \in {"system", "user", "assistant"}}

\* The k-th of these positions.
KeptAt(messages, k) ==
    CHOOSE i \in Kept(messages) :
        Cardinality({j \in Kept(messages) : j < i}) = k - 1

\* converted is the messages with a known role, in order, each as the
\* internal message of its role with its content.
IsConversionOf(converted, messages) ==
    /\ Len(converted) = Cardinality(Kept(messages))
    /\ Len(converted) <= Len(messages)
    /\ \A k \in DOMAIN converted :
         /\ RoleOf(converted[k].type) = messages[KeptAt(messages, k)].role
         /\ converted[k].content = messages[KeptAt(messages, k)].content

\* C10: _convert_messages_to_langgraph_format returns the messages whose role
\* is system, user or assistant, in the original order, each as the internal
\* message of that role with the same content; messages of any other role are
\* dropped without an error, so the result is never longer than the input,
\* and the request proceeds: the graph is invoked on the converted messages
\* (also when there are none) and nothing but a model failure ends it.
C10_ConvertKeepsKnownRoles ==
    /\ probe.fn = "_convert_messages_to_langgraph_format" =>
         IsConversionOf(probe.output, probe.input)
    /\ \A r \in Req :
         /\ pc[r] = "invoke" /\ gpc[r] = "none" => ENABLED graph_invoke(r)
         /\ gpc[r] # "none" =>
              \E own \in BoundedSeq([type : {"system", "human", "ai"},
                                     content : {hi, <<"t">>}], MaxMsgs) :
                 /\ IsConversionOf(own, request[r].messages)
                 /\ IF Len(llm_calls[r]) >= 1
                    THEN llm_calls[r][1].messages = loaded[r].messages \o own
                    ELSE st[r].messages = loaded[r].messages \o own
         /\ pc[r] = "done" /\ gpc[r] = "__end__" => resp[r].status = 200

\* A tool message was dropped and the user message after it kept.
C10_Witness ==
    /\ probe.fn = "_convert_messages_to_langgraph_format"
    /\ Len(probe.input) = 2
    /\ probe.input[1].role = "tool"
    /\ probe.input[2].role = "user"
    /\ probe.output = <<[type |-> "human", content |-> hi]>>

\* The model calls of node n in the run of slot r.
CallsOf(r, n) == {i \in DOMAIN llm_calls[r] : llm_calls[r][i].node = n}

\* The run of slot r raised: its last model call has no reply.
Raised(r) ==
    /\ llm_calls[r] # <<>>
    /\ llm_calls[r][Len(llm_calls[r])].reply = None

\* C11: in a non-streaming request no node issues its model call more than
\* once, a model call that raised is the last call of the run (nothing is
\* retried, no node runs after it), and the request is answered with HTTP
\* 500 whose detail carries the failure message, with no choices: no
\* chat.completion body.
C11_FailureIs500NoRetry ==
    \A r \in Req :
        ~request[r].stream =>
            /\ \A n \in AgentNodes \cup {"detect_intent"} :
                 Cardinality(CallsOf(r, n)) <= 1
            /\ \A i \in DOMAIN llm_calls[r] :
                 llm_calls[r][i].reply = None => i = Len(llm_calls[r])
            /\ gpc[r] = "failed" <=> Raised(r)
            /\ (Raised(r) /\ pc[r] = "done") =>
                 /\ resp[r].status = 500
                 /\ resp[r].detail = <<"Error processing request: ", UpstreamError>>
                 /\ resp[r].choices = <<>>
            /\ (Raised(r) /\ pc[r] # "done") => resp[r] = NoResponse

\* The specialist's model call of a blocking request raised after the
\* classifier's returned, and the request was answered with HTTP 500.
C11_Witness ==
    \E r \in Req :
        /\ ~request[r].stream
        /\ pc[r] = "done"
        /\ Len(llm_calls[r]) = 2
        /\ llm_calls[r][2].reply = None
        /\ resp[r].status = 500

\* The input messages of the run of slot r.
InputOf(r) == _convert_messages_to_langgraph_format(request[r].messages)

\* C12: the history is append-only. Once a run has started, its messages
\* are the messages the thread held before, followed by the run's input
\* messages in order; no node before the end removes, replaces or reorders
\* one; and when the run has reached END they are followed by exactly one
\* new assistant message. The thread's persisted messages are those of the
\* run.
C12_HistoryAppendOnly ==
    \A r \in Req :
        LET before == loaded[r].messages
            sofar  == before \o InputOf(r)
        IN  /\ gpc[r] \in AgentNodes \cup {"detect_intent", "failed"} =>
                 st[r].messages = sofar
            /\ gpc[r] = "__end__" =>
                 /\ Len(st[r].messages) = Len(sofar) + 1
                 /\ SubSeq(st[r].messages, 1, Len(sofar)) = sofar
                 /\ st[r].messages[Len(sofar) + 1].type = "ai"
            /\ gpc[r] # "none" =>
                 checkpoints[thread_id[r]].messages = st[r].messages

\* The second run of a thread has reached END with a non-empty input on a
\* non-empty history.
C12_Witness ==
    \E r \in Req :
        /\ gpc[r] = "__end__"
        /\ loaded[r].messages # <<>>
        /\ InputOf(r) # <<>>
        /\ Len(st[r].messages) = Len(loaded[r].messages) + Len(InputOf(r)) + 1

\* The last message of the run of slot r.
LastMessage(r) == st[r].messages[Len(st[r].messages)]

\* C13 as claimed: the last message of every completed turn is an assistant
\* message with no unanswered tool-call request (a requested tool was run
\* and its result given to the model before END).
C13_ToolCallsAnswered ==
    \A r \in Req :
        gpc[r] = "__end__" =>
            /\ LastMessage(r).type = "ai"
            /\ LastMessage(r).tool_calls = <<>>

\* The events the run of slot r has put on its event stream so far, in
\* arrival order: the start of the run, then the chunks of each model reply.
RECURSIVE EventsOfCalls(_)
EventsOfCalls(calls) ==
    IF calls = <<>> THEN <<>>
    ELSE token_events(Head(calls).chunks) \o EventsOfCalls(Tail(calls))

Arrived(r) ==
    <<[event |-> "on_chain_start", content |-> <<>>]>> \o EventsOfCalls(llm_calls[r])

\* The events of slot r the adapter has consumed.
Consumed(r) == SubSeq(Arrived(r), 1, Len(Arrived(r)) - Len(evq[r]))

\* The content of the token events with non-empty content among events, in
\* order.
RECURSIVE TokenContents(_)
TokenContents(events) ==
    IF events = <<>> THEN <<>>
    ELSE LET e == Head(events)
         IN  (IF e.event = "on_chat_model_stream" /\ e.content # <<>>
              THEN <<e.content>> ELSE <<>>) \o TokenContents(Tail(events))

\* The content of the chunks without finish_reason among the items o.
RECURSIVE DeltaContents(_)
DeltaContents(o) ==
    IF o = <<>> THEN <<>>
    ELSE (IF Head(o).kind = "chunk" /\ Head(o).finish_reason = "null"
          THEN <<Head(o).content>> ELSE <<>>) \o DeltaContents(Tail(o))

\* C14: at every moment of a streaming response, the events not yet
\* consumed are the last of the arrived ones, and the content chunks
\* emitted are exactly the contents of the consumed token events with
\* non-empty content, one chunk per event, in arrival order: the i-th chunk
\* carries the i-th such event, and none is reordered, merged, duplicated
\* or held back while a later event is consumed.
C14_ChunksInArrivalOrder ==
    \A r \in Req :
        (request[r].stream /\ gpc[r] # "none") =>
            /\ Len(evq[r]) <= Len(Arrived(r))
            /\ evq[r] = SubSeq(Arrived(r), Len(Arrived(r)) - Len(evq[r]) + 1,
                               Len(Arrived(r)))
            /\ DeltaContents(out[r]) = TokenContents(Consumed(r))

\* A stream has delivered the classifier's token and the two non-empty
\* tokens of the specialist, around whose empty token no chunk was made.
C14_Witness ==
    \E r \in Req :
        /\ request[r].stream
        /\ pc[r] = "done"
        /\ Len(Consumed(r)) = 5
        /\ DeltaContents(out[r]) = <<heating, <<"o">>, <<"k">>>>

\* The persisted state of the thread of slot r.
Persisted(r) == get_state(checkpoints, thread_id[r])

\* The caller of slot r has disconnected.
Gone(r) == pc[r] = "disconnected"

StillAfterDisconnect ==
    \A r \in Req :
        (Gone(r) /\ pc'[r] = "disconnected") =>
            /\ evq'[r] = evq[r]
            /\ out'[r] = out[r]
            /\ gpc'[r] = gpc[r]
            /\ st'[r] = st[r]
            /\ llm_calls'[r] = llm_calls[r]
            /\ checkpoints' = checkpoints

\* What is persisted at a disconnect: the steps the run had completed. A run
\* cancelled before END leaves the turn's input messages (and the issue_type
\* if the classifier had run) in the thread, without an assistant message;
\* the assistant message is there exactly when the run had reached END.
PersistedAtDisconnect ==
    \A r \in Req :
        Gone(r) =>
            /\ gpc[r] \in {"none", "cancelled", "failed", "__end__"}
            /\ gpc[r] # "none" => Persisted(r) = st[r]
            /\ gpc[r] = "none" => (llm_calls[r] = <<>> /\ out[r] = <<>>)
            /\ gpc[r] \in {"cancelled", "failed"} =>
                 Persisted(r).messages = loaded[r].messages \o InputOf(r)
            /\ gpc[r] = "__end__" =>
                 /\ Len(Persisted(r).messages) =
                      Len(loaded[r].messages) + Len(InputOf(r)) + 1
                 /\ LastMessage(r).type = "ai"
            /\ \A i \in DOMAIN out[r] : out[r][i].kind \in {"chunk"}

SlotView(r) ==
    <<pc[r], request[r], thread_id[r], gpc[r], st[r], loaded[r], path[r],
      llm_calls[r], evq[r], out[r], resp[r]>>

\* A step is the step of one request: it leaves every other request as it
\* was, and changes the persisted state of no thread but the request's own.
StepOfOne ==
    \E r \in Req :
        /\ \A q \in Req \ {r} : SlotView(q)' = SlotView(q)
        /\ \A tid \in DOMAIN checkpoints' :
             (tid # thread_id[r] /\ tid # thread_id'[r]) =>
                 /\ tid \in DOMAIN checkpoints
                 /\ checkpoints'[tid] = checkpoints[tid]

\* What a request that runs alone gets: a history that is the thread's
\* earlier state followed by its input and, at END, its specialist's reply;
\* the category of its own classifier's reply; the specialist of that
\* category; a response with its own specialist's reply; and a persisted
\* thread state that is the state of its own run.
AsIfAlone(r) ==
    /\ gpc[r] # "none" => Persisted(r) = st[r]
    /\ gpc[r] \in AgentNodes \cup {"detect_intent", "failed"} =>
         st[r].messages = loaded[r].messages \o InputOf(r)
    /\ Classified(r) =>
         /\ llm_calls[r][1].messages = loaded[r].messages \o InputOf(r)
         /\ st[r].issue_type = ParseIntent(llm_calls[r][1].reply)
    /\ Len(path[r]) = 3 => path[r][3] = AgentOf(st[r].issue_type)
    /\ gpc[r] = "__end__" =>
         /\ st[r].messages =
              loaded[r].messages \o InputOf(r)
                \o <<[type |-> "ai", content |-> llm_calls[r][2].reply,
                      tool_calls |-> <<>>]>>
         /\ pc[r] = "done" =>
              /\ resp[r].status = 200
              /\ resp[r].choices[1].content = llm_calls[r][2].reply
    /\ (gpc[r] = "failed" /\ pc[r] = "done") => resp[r].status = 500

\* C16: with concurrent requests on different threads, under every
\* interleaving, every step is the step of one request and touches no other
\* request and no other thread's persisted state, and every request's
\* classification, specialist, response and thread state are those it gets
\* when it runs alone.
C16_DifferentThreadsIndependent ==
    [][StepOfOne]_vars /\ [](\A r \in Req : AsIfAlone(r))

\* Two requests are in flight at once, one continuing the named thread and
\* one on a fresh thread; they were classified differently and both have
\* their own response.
C16_Witness ==
    \E r, q \in Req :
        /\ r # q
        /\ pc[r] = "done" /\ pc[q] = "done"
        /\ gpc[r] = "__end__" /\ gpc[q] = "__end__"
        /\ thread_id[r] = T1 /\ thread_id[q] # T1
        /\ Len(loaded[r].messages) = 2
        /\ loaded[q].messages = <<>>
        /\ st[r].issue_type = heating /\ st[q].issue_type = damp
        /\ Len(st[r].messages) = 4 /\ Len(st[q].messages) = 2

\* The specialist the run of slot r has run or is about to run.
SpecialistOf(r) == IF Len(path[r]) = 3 THEN path[r][3] ELSE gpc[r]

\* C17: routing is deterministic. The issue_type a run writes and the
\* specialist it runs are determined by the classifier's reply alone, and so
\* two runs whose classifier saw the same message history and gave the same
\* reply write the same issue_type and run the same specialist, whatever
\* their thread identifiers, users, sampling temperatures or the thread's
\* earlier issue_type.
C17_RoutingDeterministic ==
    /\ \A r \in Req :
         (Classified(r) /\ gpc[r] # "failed") =>
             /\ st[r].issue_type = ParseIntent(llm_calls[r][1].reply)
             /\ SpecialistOf(r) = AgentOf(ParseIntent(llm_calls[r][1].reply))
    /\ \A r, q \in Req :
         ( /\ Classified(r) /\ Classified(q)
           /\ llm_calls[r][1].messages = llm_calls[q][1].messages
           /\ llm_calls[r][1].reply = llm_calls[q][1].reply ) =>
             /\ st[r].issue_type = st[q].issue_type
             /\ (Len(path[r]) = 3 /\ Len(path[q]) = 3) => path[r][3] = path[q][3]

\* Two runs in flight at once, of different users on different threads with
\* different temperatures, saw the same history and the same reply damp
\* and both ran damp_agent.
C17_Witness ==
    \E r, q \in Req :
        /\ r # q
        /\ Classified(r) /\ Classified(q)
        /\ thread_id[r] = T1 /\ thread_id[q] # T1
        /\ request[r].user # request[q].user
        /\ request[r].temperature # request[q].temperature
        /\ llm_calls[r][1].messages = llm_calls[q][1].messages
        /\ llm_calls[r][1].reply = damp /\ llm_calls[q][1].reply = damp
        /\ path[r] = FullPath(damp) /\ path[q] = FullPath(damp)

\* The calls of specialists' models in the run of slot r.
AgentCalls(r) ==
    {i \in DOMAIN llm_calls[r] : llm_calls[r][i].node \in AgentNodes}

\* C18: for each of the four categories, the specialist that dispatch
\* selects calls its model with the persona of that category as the system
\* message, followed by the full history (the thread's earlier messages and
\* the request's, unchanged and in order); the four personas differ from
\* one another and from the classifier's prompt; and a specialist whose
\* model replied has added exactly one message, the reply.
C18_SpecialistUsesOwnPersona ==
    /\ \A v, w \in valid_types :
         /\ v # w => Persona(AgentOf(v)) # Persona(AgentOf(w))
         /\ Persona(AgentOf(v)) # Persona("detect_intent")
    /\ \A r \in Req : \A i \in AgentCalls(r) :
         LET call == llm_calls[r][i]
         IN  /\ i = 2
             /\ call.node = AgentOf(st[r].issue_type)
             /\ call.system = Persona(AgentOf(st[r].issue_type))
             /\ call.messages = loaded[r].messages \o InputOf(r)
             /\ call.reply # None =>
                  /\ Len(st[r].messages) = Len(call.messages) + 1
                  /\ SubSeq(st[r].messages, 1, Len(call.messages)) = call.messages
                  /\ LastMessage(r).type = "ai"
                  /\ LastMessage(r).content = call.reply

\* In the second turn of a thread a request classified repairs was answered
\* by repairs_agent, with the repairs persona and the three earlier messages.
C18_Witness ==
    \E r \in Req :
        /\ gpc[r] = "__end__"
        /\ st[r].issue_type = repairs
        /\ llm_calls[r][2].node = "repairs_agent"
        /\ llm_calls[r][2].system = "You are a repairs and maintenance expert"
        /\ Len(llm_calls[r][2].messages) = 3
        /\ Len(st[r].messages) = 4

\* The graph run of slot r has been asked for and is not over: it is about
\* to start, at the classifier, or at any of the four specialists.
Running(r) == pc[r] = "invoke" /\ gpc[r] \in AgentNodes \cup {"none", "detect_intent"}

\* END is terminal: a run that has reached END runs no node and changes no
\* state until its request is discarded.
EndIsTerminal ==
    \A r \in Req :
        gpc[r] = "__end__" =>
            \/ /\ gpc'[r] = "__end__"
               /\ st'[r] = st[r]
               /\ path'[r] = path[r]
               /\ llm_calls'[r] = llm_calls[r]
               /\ checkpoints' = checkpoints
            \/ /\ gpc'[r] = "none"
               /\ pc[r] = "done" /\ pc'[r] = "idle"
               /\ checkpoints' = checkpoints

\* C19: every graph run that has started and whose model calls return
\* reaches END, in every category: a run at the classifier or at any of the
\* four specialists leads to END unless a model call of it raises; and END
\* is terminal.
C19_RunReachesEnd ==
    /\ \A r \in Req : Running(r) ~> (gpc[r] \in {"__end__", "failed"})
    /\ [][EndIsTerminal]_vars

\* A run classified general has reached END and its response was sent.
C19_Witness ==
    \E r \in Req :
        /\ gpc[r] = "__end__"
        /\ pc[r] = "done"
        /\ path[r] = FullPath(general)
        /\ resp[r].status = 200

\* Slots r and q hold two turns of one thread that read the same prior
\* history.
SamePrior(r, q) ==
    /\ r # q
    /\ gpc[r] \notin {"none", "__start__"} /\ gpc[q] \notin {"none", "__start__"}
    /\ thread_id[r] = thread_id[q]
    /\ loaded[r] = loaded[q]

\* A run that saves its state replaces the thread's persisted state by its
\* own, whatever another turn has saved there since the run loaded it.
LastWriterWins ==
    \A r \in Req :
        (gpc'[r] # gpc[r] /\ gpc'[r] \in AgentNodes \cup {"detect_intent", "__end__"}) =>
            get_state(checkpoints', thread_id[r]) = st'[r]

\* C20: concurrent requests on one thread are not serialized. A request
\* that has been accepted can start its run whatever the other requests on
\* its thread are doing; a run that saves overwrites the thread's state with
\* its own; and of two turns that read the same prior history neither sees
\* the other: each specialist saw the prior history and its own turn's input
\* only, and each run's history lacks the other turn's messages, so that the
\* persisted history, which is one run's, differs from that of both serial
\* orders.
C20_SameThreadNotSerialized ==
    /\ [](\A r \in Req :
            (pc[r] = "invoke" /\ gpc[r] = "none") => ENABLED graph_load(r))
    /\ [][LastWriterWins]_vars
    /\ [](\A r, q \in Req :
            SamePrior(r, q) =>
                /\ \A i \in DOMAIN llm_calls[r] :
                     llm_calls[r][i].messages = loaded[r].messages \o InputOf(r)
                /\ Len(st[r].messages) <=
                     Len(loaded[r].messages) + Len(InputOf(r)) + 1
                /\ Len(st[r].messages) <
                     Len(loaded[r].messages) + Len(InputOf(r)) + 1
                       + Len(InputOf(q)) + 1)

\* Two turns of the named thread read the same empty history and both
\* reached END: the thread has two completed turns, and its persisted
\* history holds the two messages of one of them only.
C20_Witness ==
    \E r, q \in Req :
        /\ SamePrior(r, q)
        /\ thread_id[r] = T1
        /\ loaded[r].messages = <<>>
        /\ gpc[r] = "__end__" /\ gpc[q] = "__end__"
        /\ st[r].issue_type = heating /\ st[q].issue_type = damp
        /\ Len(turns[T1]) = 2
        /\ Persisted(r) = st[q]
        /\ Len(Persisted(r).messages) = 2

\* The number of times the graph has been invoked for the request of slot r:
\* the starts of a run its path records.
Starts(r) == Cardinality({i \in DOMAIN path[r] : path[r][i] = "__start__"})

\* What a slot holds when nothing of a request is in it.
EmptySlot ==
    <<"idle", NoRequest, None, "none", EmptyState, EmptyState, <<>>, <<>>,
      <<>>, <<>>, NoResponse>>

\* An accepted request is invoked as soon as it is accepted, whatever was
\* served before; it is invoked once; and what it returns is what its own
\* run produced.
OwnRunOnly ==
    \A r \in Req :
        pc[r] # "idle" =>
            /\ Starts(r) = IF gpc[r] = "none" THEN 0 ELSE 1
            /\ (pc[r] \in {"invoke", "stream"} /\ gpc[r] = "none") =>
                 ENABLED graph_invoke(r)
            /\ pc[r] \in {"done", "stop_sent"} => gpc[r] \in {"__end__", "failed"}
            /\ \A n \in AgentNodes \cup {"detect_intent"} :
                 Cardinality(CallsOf(r, n)) <= 1
            /\ (pc[r] = "done" /\ gpc[r] = "__end__") =>
                 /\ Len(llm_calls[r]) = 2
                 /\ ~request[r].stream =>
                      resp[r].choices[1].content = llm_calls[r][2].reply
                 /\ request[r].stream =>
                      DeltaContents(out[r]) =
                          TokenContents(EventsOfCalls(llm_calls[r]))

\* Accepting a request starts from nothing, invoking the graph is the one
\* step from no run to a run, and a served request leaves nothing behind in
\* the adapter.
NothingKept ==
    \A r \in Req :
        /\ (pc[r] = "idle" /\ pc'[r] # "idle") =>
             /\ SlotView(r) = EmptySlot
             /\ gpc'[r] = "none" /\ path'[r] = <<>> /\ llm_calls'[r] = <<>>
             /\ evq'[r] = <<>> /\ out'[r] = <<>> /\ st'[r] = EmptyState
             /\ resp'[r].choices = <<>>
             /\ checkpoints' = checkpoints
        /\ (gpc[r] = "none" /\ gpc'[r] # "none") =>
             /\ pc[r] \in {"invoke", "stream"}
             /\ path'[r] = <<"__start__">>
        /\ (gpc[r] # "none" /\ gpc'[r] = "none") => pc'[r] = "idle"
        /\ (pc[r] # "idle" /\ pc'[r] = "idle") => SlotView(r)' = EmptySlot

\* C21: each accepted request invokes the graph exactly once, in blocking
\* and in streaming mode, and the adapter keeps nothing between requests: a
\* request identical to an earlier one is invoked again as soon as it is
\* accepted, its model calls are made again, and its response is built from
\* the replies of its own run, never from an earlier response.
C21_GraphInvokedOncePerRequest ==
    []OwnRunOnly /\ [][NothingKept]_vars

\* Two identical blocking requests were both served, each by a run of its
\* own on a thread of its own, and got different responses.
C21_Witness ==
    \E r, q \in Req :
        /\ r # q
        /\ pc[r] = "done" /\ pc[q] = "done"
        /\ request[r] = request[q]
        /\ ~request[r].stream
        /\ Starts(r) = 1 /\ Starts(q) = 1
        /\ Len(llm_calls[r]) = 2 /\ Len(llm_calls[q]) = 2
        /\ thread_id[r] # thread_id[q]
        /\ resp[r].choices[1].content = <<"o", "k">>
        /\ resp[q].choices[1].content = <<>>

\* The sum of f over the positions of a sequence of length n.
RECURSIVE SumTo(_, _)
SumTo(f, n) == IF n = 0 THEN 0 ELSE f[n] + SumTo(f, n - 1)

\* The length of the text of a message list whose texts need no escape: two
\* brackets, for each message the 32 characters around its role and content
\* and the characters of both, and two characters between messages.
TextLength(messages) ==
    LET n == Len(messages)
        each == [i \in 1..n |->
                    32 + Len(RoleText(messages[i].role)) + Len(messages[i].content)]
    IN  2 + SumTo(each, n) + (IF n = 0 THEN 0 ELSE 2 * (n - 1))

\* u is the usage of a response with this content to a request with these
\* messages.
IsUsageOf(u, messages, content) ==
    /\ u.completion_tokens = Len(content)
    /\ u.prompt_tokens = TextLength(messages)
    /\ u.prompt_tokens >= 0 /\ u.completion_tokens >= 0 /\ u.total_tokens >= 0
    /\ u.total_tokens = u.prompt_tokens + u.completion_tokens

\* C22: in every non-streaming response the usage figures are lengths:
\* completion_tokens is the number of characters of the returned content,
\* prompt_tokens is the number of characters of the text of the request's
\* message list (every message of the request, those of a dropped role
\* included, and nothing of the thread's earlier history), the three
\* figures are non-negative and total_tokens is the sum of the other two.
C22_UsageLengthBased ==
    /\ probe.fn = "usage" =>
         IsUsageOf(probe.output, probe.input.messages, probe.input.content)
    /\ \A r \in Req :
         (pc[r] = "done" /\ ~request[r].stream /\ resp[r].status = 200) =>
             IsUsageOf(resp[r].usage, request[r].messages,
                       resp[r].choices[1].content)

\* The second request of a thread, with a tool and a user message, was
\* answered "ok": 79 characters of prompt, 2 of completion, 81 in total.
C22_Witness ==
    \E r \in Req :
        /\ pc[r] = "done" /\ ~request[r].stream /\ resp[r].status = 200
        /\ Len(loaded[r].messages) = 2
        /\ Len(request[r].messages) = 2
        /\ resp[r].usage =
             [prompt_tokens |-> 79, completion_tokens |-> 2, total_tokens |-> 81]

\* C23 as claimed: the concatenation of the delta contents of a successful
\* streaming response is the content the blocking mode returns for the same
\* final state, the specialist's reply; no token of the classifier's model
\* call is in the stream.
C23_StreamEqualsBlocking ==
    \A r \in Req :
        (request[r].stream /\ pc[r] = "done" /\ gpc[r] = "__end__") =>
            /\ Concat(DeltaContents(out[r])) = response_content(st[r].messages)
            /\ Concat(DeltaContents(out[r])) = llm_calls[r][2].reply

\* The step of a node in the run of slot r: the classifier changes
\* issue_type and nothing else, a specialist appends one message and changes
\* nothing else, a model call that raises changes nothing.
NodeWritesOwnField ==
    \A r \in Req :
        /\ (gpc[r] = "detect_intent" /\ gpc'[r] \in AgentNodes) =>
             /\ st'[r].messages = st[r].messages
             /\ st'[r].current_agent = st[r].current_agent
             /\ st'[r].issue_type \in valid_types
        /\ (gpc[r] \in AgentNodes /\ gpc'[r] = "__end__") =>
             /\ st'[r].issue_type = st[r].issue_type
             /\ st'[r].current_agent = st[r].current_agent
             /\ Len(st'[r].messages) = Len(st[r].messages) + 1
             /\ SubSeq(st'[r].messages, 1, Len(st[r].messages)) = st[r].messages
        /\ gpc'[r] = "failed" => st'[r] = st[r]

\* current_agent is the value the run found on its thread, in the run's
\* state and in the state it persists, and no thread ever holds another
\* value than the null it has on a new thread.
CurrentAgentKept ==
    /\ \A r \in Req :
         gpc[r] # "none" =>
             /\ st[r].current_agent = loaded[r].current_agent
             /\ Persisted(r).current_agent = loaded[r].current_agent
    /\ \A tid \in DOMAIN checkpoints : checkpoints[tid].current_agent = None

\* A node run on its own state leaves messages and current_agent (the
\* classifier) or issue_type and current_agent (a specialist) as they were.
NodeFrame ==
    /\ probe.fn = "detect_intent node" =>
         /\ probe.output.messages = probe.input.messages
         /\ probe.output.current_agent = probe.input.current_agent
         /\ probe.output.issue_type \in valid_types
    /\ probe.fn = "specialist node" =>
         /\ probe.output.issue_type = probe.input.issue_type
         /\ probe.output.current_agent = probe.input.current_agent
         /\ Len(probe.output.messages) = Len(probe.input.messages) + 1
         /\ SubSeq(probe.output.messages, 1, Len(probe.input.messages))
              = probe.input.messages

FailureReported(r) ==
    /\ pc[r] = "done"
    /\ gpc[r] = "failed"
    /\ IF request[r].stream
       THEN StreamFailed(out[r])
       ELSE resp[r].status = 500

FailureLeavesInput ==
    \A r \in Req :
        FailureReported(r) =>
            /\ Persisted(r) = st[r]
            /\ Persisted(r).messages = loaded[r].messages \o InputOf(r)
            /\ Persisted(r).issue_type =
                 IF Classified(r) THEN ParseIntent(llm_calls[r][1].reply)
                 ELSE loaded[r].issue_type
            /\ Persisted(r).current_agent = loaded[r].current_agent
            /\ InputOf(r) = <<>> /\ ~Classified(r) => Persisted(r) = loaded[r]

\* A run starts from what is persisted on its thread, and the end of a
\* request, failed or not, changes nothing there.
LaterRequestSeesIt ==
    \A r \in Req :
        /\ (gpc[r] = "none" /\ gpc'[r] # "none") =>
             /\ loaded'[r] = get_state(checkpoints, thread_id[r])
             /\ st'[r].messages = loaded'[r].messages \o InputOf(r)
             /\ st'[r].issue_type = loaded'[r].issue_type
        /\ (pc[r] # "idle" /\ pc'[r] = "idle") => checkpoints' = checkpoints

====
